---- MODULE Spec2Model ----
(***************************************************************************)
(* Lifecycle of InsuranceApplication rows (src/app.py): the time-driven    *)
(* status evaluator recompute_status and the request handlers that create, *)
(* approve, edit and list applications.                                    *)
(*                                                                         *)
(* Time is counted in whole hours since an epoch that is a KST midnight.   *)
(* A calendar date is a day number; its midnight is day * 24 hours.        *)
(* The state is the committed content of the insurance_application table   *)
(* plus the wall clock; every action is one HTTP request, from its first   *)
(* statement to its last commit. Only SpecRace splits a request: there a   *)
(* member's save or delete runs as two steps, so that another request can  *)
(* commit between its tests and its commit.                                *)
(***************************************************************************)
EXTENDS Integers, Sequences, FiniteSets, TLC

VARIABLES
    apps,      \* committed rows: id -> record (DOMAIN apps = ids that exist)
    next_id,   \* next autoincrement primary key
    now,       \* wall clock, datetime.now(KST), in hours
    last,      \* the request handled last and the rows its evaluator loop visited
    pending    \* member save/delete requests that passed their tests and have
               \* not committed yet

vars == <<apps, next_id, now, last, pending>>

----------------------------------------------------------------------------
(* Bounds of the model *)

MaxDate == 1        \* desired_start_date ranges over day 0 .. MaxDate
MaxDays == 45       \* the clock stops after this many days
Window == 2         \* hours observed after each half-period boundary

----------------------------------------------------------------------------
(* Values *)

None == 0 - 1       \* Python None in a nullable DateTime column

SUBMITTED == "submitted"                \* '신청'
ASSOC_APPROVED == "association_approved" \* '조합승인'
ENROLLED == "enrolled"                  \* '가입'
TERMINATED == "terminated"              \* '종료'

Statuses == {SUBMITTED, ASSOC_APPROVED, ENROLLED, TERMINATED}

\* position of a status in the lifecycle order
Rank(s) == CASE s = SUBMITTED -> 0
             [] s = ASSOC_APPROVED -> 1
             [] s = ENROLLED -> 2
             [] s = TERMINATED -> 3

HoursPerDay == 12 + 12

\* timedelta(hours=2)
TwoHours == 2

\* timedelta(days=30)
ThirtyDays == 30 * HoursPerDay

\* datetime.combine(d, datetime.min.time(), tzinfo=KST)
Midnight(d) == d * HoursPerDay

Dates == 0..MaxDate

\* primary keys the table hands out; the handlers treat every row on its own,
\* so the lifecycle of a row is followed on one row
AppIds == {1}

HalfPeriod == ThirtyDays \div 2

MaxTime == MaxDays * HoursPerDay + Window

\* the instants at which the clock is observed: the first hours after every
\* multiple of 15 days
Instants == {t \in 0..MaxTime : t % HalfPeriod <= Window}

\* members and the partner group each belongs to (Member.partner_group_id)
Members == {1, 2}
Groups == {1, 2}
MemberGroup(m) == m

\* partner_group_id of the administrator issuing a request (None: no group)
AdminGroups == Groups \cup {None}

\* values an administrator can type into the start_at / end_at inputs
InputTimes == {None, 1, ThirtyDays + 1}

\* the rows matching the date-range query arguments of a listing; the
\* arguments are left empty, so every row matches
DateMatches == {AppIds}

\* the 'approved' query argument of /admin/insurance
ApprovedFilters == {"all", "approved", "unapproved"}

----------------------------------------------------------------------------
(* InsuranceApplication.recompute_status and its helper *)

\* _ensure_aware: None stays None; a stored timestamp is read as the KST
\* instant it denotes
_ensure_aware(dt) == IF dt = None THEN None ELSE dt

\* recompute_status without the status test of its first step
recompute_status_any_status(r, t) ==
    LET approved_at_local == _ensure_aware(r.approved_at)
        end_at_local == _ensure_aware(r.end_at)
        start_date == Midnight(r.desired_start_date)
        r1 == IF /\ approved_at_local # None
                 /\ t >= approved_at_local + TwoHours
              THEN IF r.start_at = None
                   THEN [r EXCEPT !.status = ENROLLED,
                                  !.start_at = start_date,
                                  !.end_at = start_date + ThirtyDays]
                   ELSE [r EXCEPT !.status = ENROLLED]
              ELSE r
    IN  IF end_at_local # None /\ t >= end_at_local
        THEN [r1 EXCEPT !.status = TERMINATED]
        ELSE r1

\* recompute_status without the two-hour delay after approval
recompute_status_no_delay(r, t) ==
    LET approved_at_local == _ensure_aware(r.approved_at)
        end_at_local == _ensure_aware(r.end_at)
        start_date == Midnight(r.desired_start_date)
        r1 == IF /\ r.status \in {SUBMITTED, ASSOC_APPROVED}
                 /\ approved_at_local # None
                 /\ t >= approved_at_local
              THEN IF r.start_at = None
                   THEN [r EXCEPT !.status = ENROLLED,
                                  !.start_at = start_date,
                                  !.end_at = start_date + ThirtyDays]
                   ELSE [r EXCEPT !.status = ENROLLED]
              ELSE r
    IN  IF end_at_local # None /\ t >= end_at_local
        THEN [r1 EXCEPT !.status = TERMINATED]
        ELSE r1

\* recompute_status with a strict comparison at the two-hour boundary
recompute_status_strict(r, t) ==
    LET approved_at_local == _ensure_aware(r.approved_at)
        end_at_local == _ensure_aware(r.end_at)
        start_date == Midnight(r.desired_start_date)
        r1 == IF /\ r.status \in {SUBMITTED, ASSOC_APPROVED}
                 /\ approved_at_local # None
                 /\ t > approved_at_local + TwoHours
              THEN IF r.start_at = None
                   THEN [r EXCEPT !.status = ENROLLED,
                                  !.start_at = start_date,
                                  !.end_at = start_date + ThirtyDays]
                   ELSE [r EXCEPT !.status = ENROLLED]
              ELSE r
    IN  IF end_at_local # None /\ t >= end_at_local
        THEN [r1 EXCEPT !.status = TERMINATED]
        ELSE r1

\* recompute_status without the start_at test before the backfill
recompute_status_always_backfill(r, t) ==
    LET approved_at_local == _ensure_aware(r.approved_at)
        end_at_local == _ensure_aware(r.end_at)
        start_date == Midnight(r.desired_start_date)
        r1 == IF /\ r.status \in {SUBMITTED, ASSOC_APPROVED}
                 /\ approved_at_local # None
                 /\ t >= approved_at_local + TwoHours
              THEN [r EXCEPT !.status = ENROLLED,
                             !.start_at = start_date,
                             !.end_at = start_date + ThirtyDays]
              ELSE r
    IN  IF end_at_local # None /\ t >= end_at_local
        THEN [r1 EXCEPT !.status = TERMINATED]
        ELSE r1

\* the evaluator, applied to row r at wall-clock time t.  Both locals are read
\* before any field is written, so the termination test sees the end_at the
\* row had on entry.
recompute_status(r, t) ==
    LET approved_at_local == _ensure_aware(r.approved_at)
        end_at_local == _ensure_aware(r.end_at)
        start_date == Midnight(r.desired_start_date)
        r1 == IF /\ r.status \in {SUBMITTED, ASSOC_APPROVED}
                 /\ approved_at_local # None
                 /\ t >= approved_at_local + TwoHours
              THEN IF r.start_at = None
                   THEN [r EXCEPT !.status = ENROLLED,
                                  !.start_at = start_date,
                                  !.end_at = start_date + ThirtyDays]
                   ELSE [r EXCEPT !.status = ENROLLED]
              ELSE r
    IN  IF end_at_local # None /\ t >= end_at_local
        THEN [r1 EXCEPT !.status = TERMINATED]
        ELSE r1

\* recompute_status raises: its first step fires on a row without start_at and
\* datetime.combine is handed a desired_start_date of None (TypeError)
recompute_raises(r, t) ==
    /\ r.status \in {SUBMITTED, ASSOC_APPROVED}
    /\ _ensure_aware(r.approved_at) # None
    /\ t >= _ensure_aware(r.approved_at) + TwoHours
    /\ r.start_at = None
    /\ r.desired_start_date = None

\* one call of recompute_status on the in-memory row r: whether it raised, and
\* the row as the call leaves it (the status assignment precedes the combine)
recompute_status_call(r, t) ==
    IF recompute_raises(r, t)
    THEN [raised |-> TRUE, row |-> [r EXCEPT !.status = ENROLLED]]
    ELSE [raised |-> FALSE, row |-> recompute_status(r, t)]

\* the approval assignments raise for the same reason
approve_raises(r) == r.start_at = None /\ r.desired_start_date = None

\* approve_row with the duration counted in hours instead of days
approve_row_hours(r, t) ==
    LET start_date_aware == Midnight(r.desired_start_date)
        r1 == [r EXCEPT !.approved_at = t, !.status = ASSOC_APPROVED]
    IN  IF r.start_at = None
        THEN [r1 EXCEPT !.start_at = start_date_aware,
                        !.end_at = start_date_aware + 30]
        ELSE r1

\* approve_row overwriting a start_at/end_at pair that is already set
approve_row_overwrite(r, t) ==
    LET start_date_aware == Midnight(r.desired_start_date)
    IN  [r EXCEPT !.approved_at = t, !.status = ASSOC_APPROVED,
                  !.start_at = start_date_aware,
                  !.end_at = start_date_aware + ThirtyDays]

\* the approval assignments shared by the bulk and the single approval branch
approve_row(r, t) ==
    LET start_date_aware == Midnight(r.desired_start_date)
        r1 == [r EXCEPT !.approved_at = t, !.status = ASSOC_APPROVED]
    IN  IF r.start_at = None
        THEN [r1 EXCEPT !.start_at = start_date_aware,
                        !.end_at = start_date_aware + ThirtyDays]
        ELSE r1

\* rows selected by the listing query of /admin/insurance: the administrator's
\* partner group, the 'approved' filter, and the date-range filters, whose
\* matches are the ids in sel
admin_rows(a, g, f, sel) ==
    {i \in DOMAIN a :
        /\ (g # None => a[i].partner_group_id = g)
        /\ (f = "approved" => a[i].approved_at # None)
        /\ (f = "unapproved" => a[i].approved_at = None)
        /\ i \in sel}

\* rows selected by the listing query of /insurance for member m
member_rows(a, m, sel) ==
    {i \in DOMAIN a :
        /\ a[i].created_by_member_id = m
        /\ (MemberGroup(m) # None => a[i].partner_group_id = MemberGroup(m))
        /\ i \in sel}

\* recompute_all looping over the whole table instead of the listed rows
recompute_all_every_row(a, rows, t) ==
    [i \in DOMAIN a |-> recompute_status(a[i], t)]

\* the table after the evaluator loop over rows
recompute_all(a, rows, t) ==
    [i \in DOMAIN a |-> IF i \in rows THEN recompute_status(a[i], t) ELSE a[i]]

\* the evaluator loop over rows is cut short by an exception: the request ends
\* in an error response and its session is discarded
loop_raises(a, rows, t) == \E i \in rows : recompute_raises(a[i], t)

\* what 'last' records for a request that ended in an unhandled exception
\* while looping over rows
InternalError(rows) == [name |-> "internal_error", rows |-> rows]

\* the table without row id
delete_row(a, id) == [i \in DOMAIN a \ {id} |-> a[i]]

----------------------------------------------------------------------------
(* Initial state: an empty table *)

Init ==
    /\ apps = << >>
    /\ next_id = 1
    /\ now = 0
    /\ last = [name |-> "init", rows |-> {}]
    /\ pending = {}

----------------------------------------------------------------------------
(* Requests *)

\* the wall clock moves forward to the next observed instant
Tick ==
    /\ \E t \in Instants :
          /\ t > now
          /\ \A u \in Instants : u > now => t <= u
          /\ now' = t
    /\ last' = [name |-> "tick", rows |-> {}]
    /\ UNCHANGED <<apps, next_id, pending>>

\* insurance_submit storing the application with its window already set
insurance_submit_with_window(m, d) ==
    /\ next_id \in AppIds
    /\ apps' = apps @@ (next_id :>
                 [status |-> SUBMITTED,
                  desired_start_date |-> d,
                  approved_at |-> None,
                  start_at |-> Midnight(d),
                  end_at |-> Midnight(d) + ThirtyDays,
                  created_by_member_id |-> m,
                  partner_group_id |-> MemberGroup(m)])
    /\ next_id' = next_id + 1
    /\ last' = [name |-> "insurance_submit", rows |-> {}]
    /\ UNCHANGED <<now, pending>>

\* POST /insurance without action: member m submits a new application
insurance_submit(m, d) ==
    /\ next_id \in AppIds
    /\ apps' = apps @@ (next_id :>
                 [status |-> SUBMITTED,
                  desired_start_date |-> d,
                  approved_at |-> None,
                  start_at |-> None,
                  end_at |-> None,
                  created_by_member_id |-> m,
                  partner_group_id |-> MemberGroup(m)])
    /\ next_id' = next_id + 1
    /\ last' = [name |-> "insurance_submit", rows |-> {}]
    /\ UNCHANGED <<now, pending>>

\* GET /insurance: the member's rows are re-evaluated; the session is
\* committed only when some status changed
insurance_list(m, sel) ==
    LET rows == member_rows(apps, m, sel)
        after == recompute_all(apps, rows, now)
        changed == \E i \in rows : after[i].status # apps[i].status
    IN  /\ IF loop_raises(apps, rows, now)
           THEN apps' = apps /\ last' = InternalError(rows)
           ELSE /\ apps' = IF changed THEN after ELSE apps
                /\ last' = [name |-> "insurance_list", rows |-> rows]
        /\ UNCHANGED <<next_id, now, pending>>

\* GET /admin/insurance: every listed row is re-evaluated and committed
admin_insurance_list(g, f, sel) ==
    LET rows == admin_rows(apps, g, f, sel)
    IN  /\ IF loop_raises(apps, rows, now)
           THEN apps' = apps /\ last' = InternalError(rows)
           ELSE /\ apps' = recompute_all(apps, rows, now)
                /\ last' = [name |-> "admin_insurance_list", rows |-> rows]
        /\ UNCHANGED <<next_id, now, pending>>

\* POST /admin/insurance bulk_approve=1, then the listing of the same request
admin_insurance_bulk_approve(g, f, sel) ==
    LET targets == {i \in DOMAIN apps :
                        /\ apps[i].approved_at = None
                        /\ (g # None => apps[i].partner_group_id = g)}
        approved == [i \in DOMAIN apps |->
                        IF i \in targets THEN approve_row(apps[i], now) ELSE apps[i]]
        rows == admin_rows(approved, g, f, sel)
    IN  /\ IF \E i \in targets : approve_raises(apps[i])
           THEN apps' = apps /\ last' = InternalError({})
           ELSE IF loop_raises(approved, rows, now)
           THEN apps' = approved /\ last' = InternalError(rows)
           ELSE /\ apps' = recompute_all(approved, rows, now)
                /\ last' = [name |-> "admin_insurance_bulk_approve", rows |-> rows]
        /\ UNCHANGED <<next_id, now, pending>>

\* POST /admin/insurance action=approve row_id=id, then the listing of the
\* same request
admin_insurance_approve(g, f, sel, id) ==
    LET approved == [apps EXCEPT ![id] = approve_row(apps[id], now)]
        rows == admin_rows(approved, g, f, sel)
    IN  /\ id \in DOMAIN apps
        /\ IF approve_raises(apps[id])
           THEN apps' = apps /\ last' = InternalError({})
           ELSE IF loop_raises(approved, rows, now)
           THEN apps' = approved /\ last' = InternalError(rows)
           ELSE /\ apps' = recompute_all(approved, rows, now)
                /\ last' = [name |-> "admin_insurance_approve", rows |-> rows]
        /\ UNCHANGED <<next_id, now, pending>>

\* POST /admin/insurance action=save row_id=id: the edit form overwrites
\* desired_start_date, start_at and end_at, commits and redirects
admin_insurance_save(id, d, s, e) ==
    /\ id \in DOMAIN apps
    /\ apps' = [apps EXCEPT ![id].desired_start_date = d,
                            ![id].start_at = s,
                            ![id].end_at = e]
    /\ last' = [name |-> "admin_insurance_save", rows |-> {}]
    /\ UNCHANGED <<next_id, now, pending>>

\* insurance_save without the approved_at test
insurance_save_ungated(m, id, d) ==
    /\ id \in DOMAIN apps
    /\ apps' = IF apps[id].created_by_member_id = m
               THEN [apps EXCEPT ![id].desired_start_date = d]
               ELSE apps
    /\ last' = [name |-> "insurance_save", rows |-> {}]
    /\ UNCHANGED <<next_id, now, pending>>

\* POST /insurance action=save row_id=id by member m: the owner may change
\* desired_start_date before approval; any other request changes nothing;
\* the request redirects
insurance_save(m, id, d) ==
    /\ id \in DOMAIN apps
    /\ apps' = IF apps[id].created_by_member_id = m /\ apps[id].approved_at = None
               THEN [apps EXCEPT ![id].desired_start_date = d]
               ELSE apps
    /\ last' = [name |-> "insurance_save", rows |-> {}]
    /\ UNCHANGED <<next_id, now, pending>>

\* insurance_delete without the ownership test
insurance_delete_any_owner(m, id) ==
    /\ id \in DOMAIN apps
    /\ apps' = IF apps[id].approved_at = None THEN delete_row(apps, id) ELSE apps
    /\ last' = [name |-> "insurance_delete", rows |-> {}]
    /\ UNCHANGED <<next_id, now, pending>>

\* POST /insurance action=delete row_id=id by member m: the owner may delete
\* the row before approval; any other request changes nothing; the request
\* redirects
insurance_delete(m, id) ==
    /\ id \in DOMAIN apps
    /\ apps' = IF apps[id].created_by_member_id = m /\ apps[id].approved_at = None
               THEN delete_row(apps, id)
               ELSE apps
    /\ last' = [name |-> "insurance_delete", rows |-> {}]
    /\ UNCHANGED <<next_id, now, pending>>

\* POST /admin/insurance action=delete row_id=id, then the listing of the same
\* request
admin_insurance_delete(g, f, sel, id) ==
    LET kept == delete_row(apps, id)
        rows == admin_rows(kept, g, f, sel)
    IN  /\ id \in DOMAIN apps
        /\ IF loop_raises(kept, rows, now)
           THEN apps' = kept /\ last' = InternalError(rows)
           ELSE /\ apps' = recompute_all(kept, rows, now)
                /\ last' = [name |-> "admin_insurance_delete", rows |-> rows]
        /\ UNCHANGED <<next_id, now, pending>>

\* POST /super/all-insurance action=delete row_id=id; the request redirects
super_all_insurance_delete(id) ==
    /\ id \in DOMAIN apps
    /\ apps' = delete_row(apps, id)
    /\ last' = [name |-> "super_all_insurance_delete", rows |-> {}]
    /\ UNCHANGED <<next_id, now, pending>>

\* GET /super/all-insurance: the rows are listed as they are stored; the
\* handler neither calls the evaluator nor commits
super_all_insurance_list ==
    /\ last' = [name |-> "super_all_insurance_list", rows |-> {}]
    /\ UNCHANGED <<apps, next_id, now, pending>>

\* the two ways safe_commit reports a failed commit, after its rollback:
\* it returns False, or it raises the exception again
CommitFailures == {"returns_false", "raises"}

\* the bulk approval whose rollback leaves the lowest target row approved
admin_insurance_bulk_approve_failed_partial(g, f, sel, c) ==
    LET targets == {i \in DOMAIN apps :
                        /\ apps[i].approved_at = None
                        /\ (g # None => apps[i].partner_group_id = g)}
        kept == {i \in targets : \A j \in targets : i <= j}
        stored == [i \in DOMAIN apps |->
                        IF i \in kept THEN approve_row(apps[i], now) ELSE apps[i]]
        rows == admin_rows(stored, g, f, sel)
    IN  /\ ~ \E i \in targets : approve_raises(apps[i])
        /\ IF c = "raises"
           THEN apps' = stored /\ last' = InternalError({})
           ELSE IF loop_raises(stored, rows, now)
           THEN apps' = stored /\ last' = InternalError(rows)
           ELSE /\ apps' = recompute_all(stored, rows, now)
                /\ last' = [name |-> "admin_insurance_bulk_approve_failed",
                            rows |-> rows]
        /\ UNCHANGED <<next_id, now, pending>>

\* POST /admin/insurance bulk_approve=1 whose commit fails: safe_commit rolls
\* the session back; when it raises, the request ends there; when it returns
\* False, the listing of the same request follows on the rows as stored
admin_insurance_bulk_approve_failed(g, f, sel, c) ==
    LET targets == {i \in DOMAIN apps :
                        /\ apps[i].approved_at = None
                        /\ (g # None => apps[i].partner_group_id = g)}
        rows == admin_rows(apps, g, f, sel)
    IN  /\ ~ \E i \in targets : approve_raises(apps[i])
        /\ IF c = "raises"
           THEN apps' = apps /\ last' = InternalError({})
           ELSE IF loop_raises(apps, rows, now)
           THEN apps' = apps /\ last' = InternalError(rows)
           ELSE /\ apps' = recompute_all(apps, rows, now)
                /\ last' = [name |-> "admin_insurance_bulk_approve_failed",
                            rows |-> rows]
        /\ UNCHANGED <<next_id, now, pending>>

\* POST /insurance action=save|delete row_id=id by member m, up to its
\* commit: the row is loaded and passes the ownership and the approved_at
\* test; d is the desired_start_date of the form (None for a delete)
insurance_begin(m, id, action, d) ==
    /\ pending = {}
    /\ id \in DOMAIN apps
    /\ apps[id].created_by_member_id = m
    /\ apps[id].approved_at = None
    /\ pending' = {[member |-> m, row_id |-> id, action |-> action,
                    desired_start_date |-> d]}
    /\ UNCHANGED <<apps, next_id, now, last>>

\* the commit of a pending member request: the DELETE, or the UPDATE of the
\* columns the form assigned, is applied to the row as it is stored by then
insurance_commit ==
    \E q \in pending :
        /\ q.row_id \in DOMAIN apps
        /\ apps' = IF q.action = "delete"
                   THEN delete_row(apps, q.row_id)
                   ELSE [apps EXCEPT
                            ![q.row_id].desired_start_date = q.desired_start_date]
        /\ pending' = {}
        /\ last' = [name |-> IF q.action = "delete" THEN "insurance_delete"
                                                    ELSE "insurance_save",
                    rows |-> {}]
        /\ UNCHANGED <<next_id, now>>

Next ==
    \/ Tick
    \/ \E m \in Members, d \in Dates : insurance_submit(m, d)
    \/ \E m \in Members, sel \in DateMatches : insurance_list(m, sel)
    \/ \E g \in AdminGroups, f \in ApprovedFilters, sel \in DateMatches :
          admin_insurance_list(g, f, sel)
    \/ \E g \in AdminGroups, f \in ApprovedFilters, sel \in DateMatches :
          admin_insurance_bulk_approve(g, f, sel)
    \/ \E g \in AdminGroups, f \in ApprovedFilters, sel \in DateMatches,
          id \in AppIds : admin_insurance_approve(g, f, sel, id)
    \/ \E id \in AppIds, d \in Dates, s \in InputTimes, e \in InputTimes :
          admin_insurance_save(id, d, s, e)
    \/ \E m \in Members, id \in AppIds, d \in Dates : insurance_save(m, id, d)
    \/ \E m \in Members, id \in AppIds : insurance_delete(m, id)
    \/ \E g \in AdminGroups, f \in ApprovedFilters, sel \in DateMatches,
          id \in AppIds : admin_insurance_delete(g, f, sel, id)
    \/ \E id \in AppIds : super_all_insurance_delete(id)

Spec == Init /\ [][Next]_vars

----------------------------------------------------------------------------
(* The evaluator loop over a table of two rows as a listing may find it,    *)
(* rows without desired_start_date included: the case the error policy of   *)
(* the evaluator is about.                                                  *)

BatchIds == {1, 2}

BatchRows ==
    {r \in [status : {SUBMITTED, ASSOC_APPROVED, ENROLLED},
            desired_start_date : {None, 0},
            approved_at : {None, 0},
            start_at : {None, Midnight(0)},
            end_at : {None, Midnight(0) + ThirtyDays},
            created_by_member_id : {1},
            partner_group_id : {MemberGroup(1)}] :
        (r.approved_at = None) <=> (r.status = SUBMITTED)}

InitBatch ==
    /\ apps \in [BatchIds -> BatchRows]
    /\ next_id = Cardinality(BatchIds) + 1
    /\ now = 0
    /\ last = [name |-> "init", rows |-> {}]
    /\ pending = {}

NextBatch ==
    \/ Tick
    \/ \E m \in Members : insurance_list(m, BatchIds)
    \/ \E g \in AdminGroups, f \in ApprovedFilters : admin_insurance_list(g, f, BatchIds)
    \/ super_all_insurance_list

SpecBatch == InitBatch /\ [][NextBatch]_vars

----------------------------------------------------------------------------
(* Approvals and member requests on a table of two submitted rows of        *)
(* different members and partner groups, as submissions and the             *)
(* administrator's edit form leave them. The clock stands at one of two     *)
(* instants: before any window has ended, and after every window has.       *)

MultiIds == {1, 2}

MultiRows ==
    {r \in [status : {SUBMITTED},
            desired_start_date : Dates,
            approved_at : {None},
            start_at : {None, 1},
            end_at : {None, ThirtyDays + 1},
            created_by_member_id : Members,
            partner_group_id : Groups] :
        r.partner_group_id = MemberGroup(r.created_by_member_id)}

MultiInstants == {0, ThirtyDays + TwoHours}

InitMulti ==
    /\ apps \in [MultiIds -> MultiRows]
    /\ \A i \in MultiIds : apps[i].created_by_member_id = i
    /\ next_id = Cardinality(MultiIds) + 1
    /\ now \in MultiInstants
    /\ last = [name |-> "init", rows |-> {}]
    /\ pending = {}

NextMulti ==
    \/ \E g \in AdminGroups, f \in ApprovedFilters :
          admin_insurance_bulk_approve(g, f, MultiIds)
    \/ \E g \in AdminGroups, f \in ApprovedFilters, c \in CommitFailures :
          admin_insurance_bulk_approve_failed(g, f, MultiIds, c)
    \/ \E g \in AdminGroups, f \in ApprovedFilters, id \in MultiIds :
          admin_insurance_approve(g, f, MultiIds, id)
    \/ \E m \in Members, id \in MultiIds, d \in Dates : insurance_save(m, id, d)
    \/ \E m \in Members, id \in MultiIds : insurance_delete(m, id)

SpecMulti == InitMulti /\ [][NextMulti]_vars

----------------------------------------------------------------------------
(* A member's save or delete interleaved with approvals: the member's       *)
(* request and the administrator's run in different sessions, and nothing   *)
(* in the handlers locks the row between the member's test of approved_at   *)
(* and the member's commit.                                                 *)

NextRace ==
    \/ Tick
    \/ \E m \in Members, d \in Dates : insurance_submit(m, d)
    \/ \E m \in Members, id \in AppIds, d \in Dates : insurance_begin(m, id, "save", d)
    \/ \E m \in Members, id \in AppIds : insurance_begin(m, id, "delete", None)
    \/ insurance_commit
    \/ \E g \in AdminGroups, f \in ApprovedFilters, sel \in DateMatches :
          admin_insurance_bulk_approve(g, f, sel)
    \/ \E g \in AdminGroups, f \in ApprovedFilters, sel \in DateMatches,
          id \in AppIds : admin_insurance_approve(g, f, sel, id)

SpecRace == Init /\ [][NextRace]_vars

----------------------------------------------------------------------------
(* An approved application under listings that keep coming while the clock  *)
(* advances: the row is a submitted row as the submission and the           *)
(* administrator's edit form leave it, approved at hour 0; afterwards no    *)
(* request but the two listings touches it.                                 *)

LiveRows ==
    [status : {SUBMITTED},
     desired_start_date : Dates,
     approved_at : {None},
     start_at : InputTimes,
     end_at : InputTimes,
     created_by_member_id : {1},
     partner_group_id : {MemberGroup(1)}]

InitLive ==
    /\ \E r \in LiveRows : apps = (1 :> approve_row(r, 0))
    /\ next_id = 2
    /\ now = 0
    /\ last = [name |-> "admin_insurance_approve", rows |-> {1}]
    /\ pending = {}

NextLive ==
    \/ Tick
    \/ \E m \in Members : insurance_list(m, AppIds)
    \/ \E g \in AdminGroups, f \in ApprovedFilters : admin_insurance_list(g, f, AppIds)

\* the clock keeps advancing and the administrator's unfiltered listing keeps
\* being requested
SpecLive ==
    /\ InitLive
    /\ [][NextLive]_vars
    /\ WF_vars(Tick)
    /\ WF_vars(admin_insurance_list(None, "all", AppIds))

TypeOK ==
    /\ now \in Instants
    /\ next_id \in AppIds \cup {Cardinality(AppIds) + 1}
    /\ DOMAIN apps \subseteq 1..(next_id - 1)
    /\ \A i \in DOMAIN apps :
          /\ apps[i].status \in Statuses
          /\ apps[i].desired_start_date \in Dates
          /\ apps[i].approved_at \in Instants \cup {None}
    /\ pending = {}

----------------------------------------------------------------------------
(* Properties *)

\* requests that only run the evaluator loop
EvaluatorRequests == {"insurance_list", "admin_insurance_list"}

\* the last request ran the evaluator on row i
Evaluated(i) == last.name \in EvaluatorRequests /\ i \in last.rows

\* the fields the evaluator may write
Lifecycle(r) == <<r.status, r.start_at, r.end_at>>

FortyFiveDays == 45 * HoursPerDay

\* C1: a request that only runs the evaluator never moves the status of a
\* row backwards in submitted < association_approved < enrolled < terminated.
C1_EvaluatorMonotone ==
    [][last'.name \in EvaluatorRequests =>
          \A i \in DOMAIN apps : Rank(apps'[i].status) >= Rank(apps[i].status)]_vars

\* a listing has evaluated a row and left it terminated
C1_Witness ==
    \E i \in DOMAIN apps :
        /\ Evaluated(i)
        /\ apps[i].status = TERMINATED
        /\ apps[i].end_at # None /\ apps[i].end_at <= now

\* C2: no request of any kind moves the status of a row backwards.
C2_StatusMonotone ==
    [][\A i \in DOMAIN apps \cap DOMAIN apps' : Rank(apps'[i].status) >= Rank(apps[i].status)]_vars

\* C3: once approved_at of a row is set, no request changes it.
C3_ApprovedAtSetOnce ==
    [][\A i \in DOMAIN apps \cap DOMAIN apps' :
          apps[i].approved_at # None => apps'[i].approved_at = apps[i].approved_at]_vars

\* C4: evaluating a row twice at the same time gives, after the second call,
\* the status, start_at and end_at the first call gave.
C4_EvaluatorIdempotent ==
    \A i \in DOMAIN apps :
        LET once == recompute_status(apps[i], now)
        IN  Lifecycle(recompute_status(once, now)) = Lifecycle(once)

\* C5: a row approved at T whose start_at and end_at are unset and whose
\* midnight(D) + 30 days has passed is, after one evaluation at T + 45 days,
\* terminated with start_at = midnight(D) and end_at = midnight(D) + 30 days.
C5_SinglePassDoubleTransition ==
    \A i \in DOMAIN apps :
        LET r == apps[i]
            D == Midnight(r.desired_start_date)
        IN  (/\ r.status \in {SUBMITTED, ASSOC_APPROVED}
             /\ r.approved_at # None
             /\ now = r.approved_at + FortyFiveDays
             /\ r.start_at = None /\ r.end_at = None
             /\ now >= D + ThirtyDays)
            => Lifecycle(recompute_status(r, now)) = <<TERMINATED, D, D + ThirtyDays>>

\* the row is association_approved, approved at T, and the clock is before T + 2h
BeforeGate(r) ==
    /\ r.status = ASSOC_APPROVED
    /\ r.approved_at # None
    /\ now < r.approved_at + TwoHours

\* the row is association_approved, approved at T, and the clock is at or after
\* T + 2h
AfterGate(r) ==
    /\ r.status = ASSOC_APPROVED
    /\ r.approved_at # None
    /\ now >= r.approved_at + TwoHours

\* the end_at the row holds has been reached
EndReached(r) == r.end_at # None /\ now >= r.end_at

\* C6 as stated: an evaluation of an association_approved row before T + 2h
\* leaves its status association_approved.
C6_GateLowerAsStated ==
    \A i \in DOMAIN apps :
        BeforeGate(apps[i]) => recompute_status(apps[i], now).status = ASSOC_APPROVED

\* C6 as amended: an evaluation of an association_approved row before T + 2h
\* never enrolls it: the status stays association_approved, except that it
\* becomes terminated when the row's end_at is set and has been reached.
C6_GateLower ==
    \A i \in DOMAIN apps :
        BeforeGate(apps[i]) =>
            recompute_status(apps[i], now).status =
                IF EndReached(apps[i]) THEN TERMINATED ELSE ASSOC_APPROVED

\* a listing evaluated the row one hour before the gate and it is still
\* association_approved
C6_Witness ==
    \E i \in DOMAIN apps :
        /\ Evaluated(i)
        /\ apps[i].status = ASSOC_APPROVED
        /\ apps[i].approved_at # None
        /\ now = apps[i].approved_at + TwoHours - 1

\* C7 as stated: an evaluation of an association_approved row at or after
\* T + 2h leaves it enrolled.
C7_GateUpperAsStated ==
    \A i \in DOMAIN apps :
        AfterGate(apps[i]) => recompute_status(apps[i], now).status = ENROLLED

\* C7 as amended: an evaluation of an association_approved row at or after
\* T + 2h leaves it enrolled, or terminated when the end_at the row held
\* before the call is set and has been reached.
C7_GateUpper ==
    \A i \in DOMAIN apps :
        AfterGate(apps[i]) =>
            recompute_status(apps[i], now).status =
                IF EndReached(apps[i]) THEN TERMINATED ELSE ENROLLED

\* a listing evaluated the row exactly at T + 2h and it is enrolled
C7_Witness ==
    \E i \in DOMAIN apps :
        /\ Evaluated(i)
        /\ apps[i].status = ENROLLED
        /\ apps[i].approved_at # None
        /\ now = apps[i].approved_at + TwoHours

\* C8: an enrolled row has approved_at, start_at and end_at set.
C8_EnrolledHasTimestamps ==
    \A i \in DOMAIN apps :
        apps[i].status = ENROLLED =>
            /\ apps[i].approved_at # None
            /\ apps[i].start_at # None
            /\ apps[i].end_at # None

\* C9: a terminated row has end_at set, and end_at is not after the clock.
C9_TerminatedHasReachedEnd ==
    \A i \in DOMAIN apps :
        apps[i].status = TERMINATED =>
            apps[i].end_at # None /\ apps[i].end_at <= now

\* C10: no request changes the status of a terminated row.
C10_TerminatedIsTerminal ==
    [][\A i \in DOMAIN apps \cap DOMAIN apps' :
          apps[i].status = TERMINATED => apps'[i].status = TERMINATED]_vars

\* requests that run the approval assignments
ApprovalRequests == {"admin_insurance_approve", "admin_insurance_bulk_approve"}

\* C11: an evaluation of a terminated row, now or at any later time, leaves its
\* status, start_at and end_at as they are.
C11_TerminalStable ==
    \A i \in DOMAIN apps :
        apps[i].status = TERMINATED =>
            \A t \in Instants :
                t >= now => Lifecycle(recompute_status(apps[i], t)) = Lifecycle(apps[i])

\* a listing evaluated a terminated row whose end_at had been cleared, and the
\* row is still terminated
C11_Witness ==
    \E i \in DOMAIN apps :
        /\ Evaluated(i)
        /\ apps[i].status = TERMINATED
        /\ apps[i].approved_at # None
        /\ apps[i].end_at = None

\* C12: an evaluation, at any time, of a row whose start_at is set leaves its
\* start_at and end_at as they are.
C12_StartEndKept ==
    \A i \in DOMAIN apps :
        apps[i].start_at # None =>
            \A t \in Instants :
                LET after == recompute_status(apps[i], t)
                IN  /\ after.start_at = apps[i].start_at
                    /\ after.end_at = apps[i].end_at

\* a listing evaluated, after the two-hour gate, a row whose start_at is not
\* the midnight of its desired_start_date, and the row kept it
C12_Witness ==
    \E i \in DOMAIN apps :
        /\ Evaluated(i)
        /\ apps[i].status = ENROLLED
        /\ apps[i].start_at # None
        /\ apps[i].start_at # Midnight(apps[i].desired_start_date)

\* the call that turned row before into row after set start_at
SetsStart(before, after) == before.start_at = None /\ after.start_at # None

\* start_at is the midnight of desired_start_date and end_at is 30 days later
ThirtyDayWindow(r) ==
    /\ r.start_at = Midnight(r.desired_start_date)
    /\ r.end_at = r.start_at + ThirtyDays

\* C13: whenever the evaluator or the approval assignments set start_at, they
\* set start_at = midnight(desired_start_date) and end_at = start_at + 30 days.
C13_ThirtyDays ==
    \A i \in DOMAIN apps :
        /\ \A t \in Instants :
              SetsStart(apps[i], recompute_status(apps[i], t)) =>
                  ThirtyDayWindow(recompute_status(apps[i], t))
        /\ SetsStart(apps[i], approve_row(apps[i], now)) =>
              ThirtyDayWindow(approve_row(apps[i], now))

\* an approval request has just approved a row and given it its 30-day window
C13_Witness ==
    \E i \in DOMAIN apps :
        /\ last.name \in ApprovalRequests
        /\ apps[i].approved_at = now
        /\ ThirtyDayWindow(apps[i])

\* C14: no request deletes a row whose approved_at is set.
C14_ApprovedNeverDeleted ==
    [][\A i \in DOMAIN apps : apps[i].approved_at # None => i \in DOMAIN apps']_vars

\* C15: neither the evaluator nor the approval assignments change an end_at
\* that is set, whether or not start_at is set.
C15_EndAtKept ==
    \A i \in DOMAIN apps :
        apps[i].end_at # None =>
            /\ \A t \in Instants : recompute_status(apps[i], t).end_at = apps[i].end_at
            /\ approve_row(apps[i], now).end_at = apps[i].end_at

Frame(r) == <<r.approved_at, r.desired_start_date, r.created_by_member_id,
              r.partner_group_id>>

NextInstant(t) ==
    IF \E u \in Instants : u > t
    THEN CHOOSE u \in Instants : u > t /\ \A v \in Instants : v > t => u <= v
    ELSE MaxTime + 1

RECURSIVE EvaluateEvery(_, _, _)
\* the row after an evaluation at every observed instant from t to until
EvaluateEvery(r, t, until) ==
    IF t > until THEN r
    ELSE EvaluateEvery(recompute_status(r, t), NextInstant(t), until)

\* C20: one evaluation at a later time t gives the status, start_at and end_at
\* that evaluations at every instant up to and including t give.
C20_MissedUpdatesSelfCorrect ==
    \A i \in DOMAIN apps :
        \A t \in Instants :
            t >= now =>
                Lifecycle(recompute_status(apps[i], t)) =
                    Lifecycle(EvaluateEvery(apps[i], now, t))

----------------------------------------------------------------------------
(* Approval, creation and listing *)

\* the rows a bulk approval by an administrator of group g assigns
BulkTargets(g) ==
    {i \in DOMAIN apps :
        /\ apps[i].approved_at = None
        /\ (g # None => apps[i].partner_group_id = g)}

\* what the approval assignments leave in row i besides its status
ApprovalFields(i) ==
    /\ i \in DOMAIN apps'
    /\ apps'[i].approved_at = now
    /\ IF apps[i].start_at = None
       THEN /\ apps'[i].start_at = Midnight(apps[i].desired_start_date)
            /\ apps'[i].end_at = apps'[i].start_at + ThirtyDays
       ELSE /\ apps'[i].start_at = apps[i].start_at
            /\ apps'[i].end_at = apps[i].end_at

\* what 'last' names after a single approval request: the request, or the
\* error response of a request cut short
AfterApprove == {"admin_insurance_approve", "internal_error"}

\* the same after a bulk approval request whose commit succeeded
AfterBulkApprove == {"admin_insurance_bulk_approve", "internal_error"}

\* the same after a bulk approval request whose commit failed
AfterBulkApproveFailed == {"admin_insurance_bulk_approve_failed", "internal_error"}

\* C21 as stated: after a single approval of a row, or a bulk approval
\* covering a row whose approved_at was null, the row has approved_at = the
\* approval time and status association_approved; an unset start_at became
\* midnight(desired_start_date) with end_at 30 days later, a set start_at/end_at
\* pair is kept
C21_ApprovalPostconditionAsStated ==
    [][/\ last'.name \in AfterApprove =>
             \A g \in AdminGroups, f \in ApprovedFilters, id \in MultiIds :
                 admin_insurance_approve(g, f, MultiIds, id) =>
                     ApprovalFields(id) /\ apps'[id].status = ASSOC_APPROVED
       /\ last'.name \in AfterBulkApprove =>
             \A g \in AdminGroups, f \in ApprovedFilters :
                 admin_insurance_bulk_approve(g, f, MultiIds) =>
                     \A i \in BulkTargets(g) :
                         ApprovalFields(i) /\ apps'[i].status = ASSOC_APPROVED]_vars

\* the status an approval request leaves in row i: its listing evaluates the
\* rows it shows, and the evaluator terminates a row whose end_at is reached
StatusAfterApproval(i) ==
    IF i \in last'.rows /\ EndReached(apps'[i]) THEN TERMINATED ELSE ASSOC_APPROVED

\* C21 amended: as stated, except that the status is terminated when the
\* listing of the same request shows the row and the row's end_at is already
\* reached at the approval time
C21_ApprovalPostcondition ==
    [][/\ last'.name \in AfterApprove =>
             \A g \in AdminGroups, f \in ApprovedFilters, id \in MultiIds :
                 admin_insurance_approve(g, f, MultiIds, id) =>
                     /\ ApprovalFields(id)
                     /\ apps'[id].status = StatusAfterApproval(id)
       /\ last'.name \in AfterBulkApprove =>
             \A g \in AdminGroups, f \in ApprovedFilters :
                 admin_insurance_bulk_approve(g, f, MultiIds) =>
                     \A i \in BulkTargets(g) :
                         /\ ApprovalFields(i)
                         /\ apps'[i].status = StatusAfterApproval(i)]_vars

\* an approval request kept a start_at/end_at pair entered before, and its
\* listing terminated the row at once
C21_Witness ==
    \E i \in DOMAIN apps :
        /\ last.name \in ApprovalRequests
        /\ i \in last.rows
        /\ apps[i].approved_at = now
        /\ apps[i].status = TERMINATED
        /\ apps[i].start_at = 1
        /\ apps[i].end_at = ThirtyDays + 1

\* C22: every request that returns a list of applications (member listing,
\* partner-admin listing, super-admin all-insurance listing) leaves each
\* listed row as recompute_status at the current time leaves it
C22_EveryListingEvaluates ==
    [][/\ last'.name \in EvaluatorRequests =>
             \A i \in last'.rows : apps'[i] = recompute_status(apps[i], now)
       /\ last'.name = "super_all_insurance_list" =>
             \A i \in DOMAIN apps :
                 ~recompute_raises(apps[i], now) =>
                     apps'[i] = recompute_status(apps[i], now)]_vars

\* C23: a row created by a member's submission has status submitted,
\* approved_at, start_at and end_at null, and the desired_start_date of the
\* submission
C23_CreationState ==
    [][\A m \in Members, d \in Dates :
          insurance_submit(m, d) =>
              /\ next_id \in DOMAIN apps' \ DOMAIN apps
              /\ apps'[next_id].status = SUBMITTED
              /\ apps'[next_id].approved_at = None
              /\ apps'[next_id].start_at = None
              /\ apps'[next_id].end_at = None
              /\ apps'[next_id].desired_start_date = d]_vars

\* a submission has just stored its row
C23_Witness ==
    /\ last.name = "insurance_submit"
    /\ \E i \in DOMAIN apps :
          /\ i = next_id - 1
          /\ apps[i].status = SUBMITTED
          /\ apps[i].desired_start_date = MaxDate
          /\ apps[i].approved_at = None

\* C24: in every reachable state a row without approved_at has status
\* submitted
C24_UnapprovedIsSubmitted ==
    \A i \in DOMAIN apps :
        apps[i].approved_at = None => apps[i].status = SUBMITTED

\* C25: a recompute_status call that writes start_at or end_at changes the
\* status, so the member listing, which commits only when some status
\* changed, commits every field the evaluator wrote
C25_StatusChangeDetectsWrites ==
    /\ \A i \in DOMAIN apps, t \in Instants :
          LET after == recompute_status(apps[i], t)
          IN  (after.start_at # apps[i].start_at \/ after.end_at # apps[i].end_at)
                  => after.status # apps[i].status
    /\ \A m \in Members, sel \in DateMatches :
          LET rows == member_rows(apps, m, sel)
              after == recompute_all(apps, rows, now)
          IN  (\E i \in rows : after[i] # apps[i])
                  => (\E i \in rows : after[i].status # apps[i].status)

\* the member listing has just committed a row whose end_at the evaluator
\* filled in this very call: the row is enrolled although its end_at is reached
C25_Witness ==
    \E i \in DOMAIN apps :
        /\ last.name = "insurance_list"
        /\ i \in last.rows
        /\ apps[i].status = ENROLLED
        /\ ThirtyDayWindow(apps[i])
        /\ EndReached(apps[i])

\* C26: every approved application is eventually terminated for good when
\* listings keep evaluating it while the clock advances
C26_EventualTermination ==
    \A i \in AppIds :
        <>[](i \in DOMAIN apps /\ apps[i].status = TERMINATED)

\* C27: a member's save or delete never changes desired_start_date of, nor
\* removes, a row whose approval is already committed
C27_MemberGate ==
    [][last'.name \in {"insurance_save", "insurance_delete"} =>
          \A i \in DOMAIN apps :
              apps[i].approved_at # None =>
                  /\ i \in DOMAIN apps'
                  /\ apps'[i].desired_start_date = apps[i].desired_start_date]_vars

\* the fields an approval assigns
Approval(r) == <<r.approved_at, r.status, r.start_at, r.end_at>>

\* C28: an approval request of an administrator of partner group g changes
\* approved_at, status, start_at and end_at only on rows of group g
C28_ApprovalWithinGroup ==
    [][last'.name \in AfterApprove \cup AfterBulkApprove =>
       \A g \in Groups, f \in ApprovedFilters :
          (\/ \E id \in MultiIds : admin_insurance_approve(g, f, MultiIds, id)
           \/ admin_insurance_bulk_approve(g, f, MultiIds))
          => \A i \in DOMAIN apps :
                 apps[i].partner_group_id # g =>
                     /\ i \in DOMAIN apps'
                     /\ Approval(apps'[i]) = Approval(apps[i])]_vars

\* a bulk approval whose commit succeeded stored the approval time in every
\* target row
BulkApproveStoresAll ==
    last'.name \in AfterBulkApprove =>
        \A g \in AdminGroups, f \in ApprovedFilters :
            admin_insurance_bulk_approve(g, f, MultiIds) =>
                \A i \in BulkTargets(g) :
                    i \in DOMAIN apps' /\ apps'[i].approved_at = now

\* C29 as stated: a bulk approval whose commit fails leaves approved_at,
\* status, start_at and end_at of every row as before the request; one whose
\* commit succeeds stores the same approved_at in every target row
C29_BulkAllOrNothingAsStated ==
    [][/\ last'.name \in AfterBulkApproveFailed =>
             \A g \in AdminGroups, f \in ApprovedFilters, c \in CommitFailures :
                 admin_insurance_bulk_approve_failed(g, f, MultiIds, c) =>
                     \A i \in DOMAIN apps :
                         /\ i \in DOMAIN apps'
                         /\ Approval(apps'[i]) = Approval(apps[i])
       /\ BulkApproveStoresAll]_vars

\* C29 amended: a bulk approval whose commit fails stores no approval:
\* approved_at of every row is as before, and status, start_at and end_at
\* differ only where the listing of the same request evaluated the row; one
\* whose commit succeeds stores the same approved_at in every target row
C29_BulkAllOrNothing ==
    [][/\ last'.name \in AfterBulkApproveFailed =>
             \A g \in AdminGroups, f \in ApprovedFilters, c \in CommitFailures :
                 admin_insurance_bulk_approve_failed(g, f, MultiIds, c) =>
                     \A i \in DOMAIN apps :
                         /\ i \in DOMAIN apps'
                         /\ apps'[i].approved_at = apps[i].approved_at
                         /\ \/ apps'[i] = apps[i]
                            \/ /\ c = "returns_false"
                               /\ i \in last'.rows
                               /\ apps'[i] = recompute_status(apps[i], now)
       /\ BulkApproveStoresAll]_vars

\* a bulk approval failed on a table that still holds an unapproved row, and
\* its listing terminated a row approved before
C29_Witness ==
    /\ last.name = "admin_insurance_bulk_approve_failed"
    /\ \E i \in DOMAIN apps : apps[i].approved_at = None
    /\ \E i \in DOMAIN apps :
          /\ i \in last.rows
          /\ apps[i].approved_at # None
          /\ apps[i].status = TERMINATED

\* C30: a member's save or delete changes or removes only rows that the
\* member created
C30_MemberOwnership ==
    [][last'.name \in {"insurance_save", "insurance_delete"} =>
       \A m \in Members :
          (\/ \E id \in MultiIds, d \in Dates : insurance_save(m, id, d)
           \/ \E id \in MultiIds : insurance_delete(m, id))
          => \A i \in DOMAIN apps :
                 apps[i].created_by_member_id # m =>
                     i \in DOMAIN apps' /\ apps'[i] = apps[i]]_vars

\* a member's delete removed one row and left the other member's row, which
\* is as unapproved as the removed one was
C30_Witness ==
    /\ last.name = "insurance_delete"
    /\ Cardinality(DOMAIN apps) = 1
    /\ \E i \in DOMAIN apps : apps[i].approved_at = None

====
